---------------------------- MODULE Spec2Model ----------------------------
(***************************************************************************)
(* A model of the DOM-based HTML sanitizer of src/src/sanitize.js.         *)
(*                                                                         *)
(* Strings are sequences of characters (one-character strings; a few       *)
(* characters that TLA+ cannot write are named: "x01" is U+0001, "x7F" is  *)
(* U+007F, "nbsp" is U+00A0).  The DOM is a function from node ids to      *)
(* node records; node 0 is the body the walker is started on.  The parser  *)
(* and the serializer are collaborators outside the repository: an html    *)
(* string is represented by the tree the document builder returns for it.  *)
(***************************************************************************)
EXTENDS Naturals, Integers, Sequences, FiniteSets, TLC

(***************************************************************************)
(* Bounds of the model.                                                    *)
(***************************************************************************)
\* number of nodes below the body in the trees of SpecTree
MaxNodes == 4
\* number of attributes on the element of SpecAttr
MaxAttrs == 2
\* number of tokens in a rel value of SpecRel
MaxRelTokens == 2
\* number of characters (control, whitespace, upper case) put into a URL
MaxInserted == 1
\* number of nodes below the body in the trees of SpecEntry
MaxEntryNodes == 2

(***************************************************************************)
(* Strings.                                                                *)
(***************************************************************************)
UpperChars == <<"A","B","C","D","E","F","G","H","I","J","K","L","M",
                "N","O","P","Q","R","S","T","U","V","W","X","Y","Z">>
LowerChars == <<"a","b","c","d","e","f","g","h","i","j","k","l","m",
                "n","o","p","q","r","s","t","u","v","w","x","y","z">>

\* String.prototype.toLowerCase, one character
LowerChar(c) ==
    IF \E i \in 1..26 : UpperChars[i] = c
    THEN LowerChars[CHOOSE i \in 1..26 : UpperChars[i] = c]
    ELSE c

UpperChar(c) ==
    IF \E i \in 1..26 : LowerChars[i] = c
    THEN UpperChars[CHOOSE i \in 1..26 : LowerChars[i] = c]
    ELSE c

\* String.prototype.toLowerCase
toLowerCase(s) == [i \in 1..Len(s) |-> LowerChar(s[i])]

\* String.prototype.startsWith
startsWith(s, p) == Len(s) >= Len(p) /\ SubSeq(s, 1, Len(p)) = p

\* String.prototype.indexOf for one character: 0-based, -1 when absent
indexOf(s, c) ==
    IF \E i \in 1..Len(s) : s[i] = c
    THEN (CHOOSE i \in 1..Len(s) : s[i] = c /\ \A j \in 1..(i-1) : s[j] # c) - 1
    ELSE -1

\* String.prototype.slice(0, n)
slice0(s, n) == SubSeq(s, 1, n)

\* the characters the class \s of a JavaScript regular expression matches
WhitespaceChars == {" ", "\t", "\n", "\r", "\f", "nbsp"}

\* the characters of [\u0000-\u001F\u007F]
ControlChars == {"x00", "x01", "\t", "\n", "\r", "\f", "x1F", "x7F"}

\* String.prototype.trim: leading and trailing whitespace goes
RECURSIVE trimStart(_)
trimStart(s) ==
    IF s # <<>> /\ Head(s) \in WhitespaceChars THEN trimStart(Tail(s)) ELSE s

RECURSIVE trimEnd(_)
trimEnd(s) ==
    IF s # <<>> /\ s[Len(s)] \in WhitespaceChars
    THEN trimEnd(SubSeq(s, 1, Len(s) - 1))
    ELSE s

trim(s) == trimEnd(trimStart(s))

\* value.replace(/[\u0000-\u001F\u007F\s]+/g, "")
removeControlAndSpace(s) ==
    SelectSeq(s, LAMBDA c : c \notin ControlChars \cup WhitespaceChars)

\* rel.split(/\s+/).filter(Boolean): the maximal runs of non-whitespace
RECURSIVE splitWhitespace(_, _)
splitWhitespace(s, cur) ==
    IF s = <<>>
    THEN IF cur = <<>> THEN <<>> ELSE <<cur>>
    ELSE IF Head(s) \in WhitespaceChars
         THEN (IF cur = <<>> THEN <<>> ELSE <<cur>>) \o splitWhitespace(Tail(s), <<>>)
         ELSE splitWhitespace(Tail(s), Append(cur, Head(s)))

\* the members of a sequence
Range(s) == {s[i] : i \in 1..Len(s)}

\* new Set(array), then Array.from(set): first occurrences, in order
RECURSIVE uniqueInOrder(_)
uniqueInOrder(s) ==
    IF s = <<>> THEN <<>>
    ELSE LET init == uniqueInOrder(SubSeq(s, 1, Len(s) - 1))
             last == s[Len(s)]
         IN IF last \in Range(init) THEN init ELSE Append(init, last)

\* Array.prototype.join(" ")
RECURSIVE joinSpace(_)
joinSpace(parts) ==
    IF parts = <<>> THEN <<>>
    ELSE IF Len(parts) = 1 THEN parts[1]
    ELSE parts[1] \o <<" ">> \o joinSpace(Tail(parts))

(***************************************************************************)
(* Policy tables: src/src/sanitize.js lines 5-26.                          *)
(***************************************************************************)
SAFE_ELEMENTS ==
    { <<"a">>, <<"a","b","b","r">>, <<"b">>,
      <<"b","l","o","c","k","q","u","o","t","e">>, <<"b","r">>, <<"c","o","d","e">>,
      <<"d","i","v">>, <<"e","m">>, <<"i">>,
      <<"i","m","g">>, <<"l","i">>, <<"o","l">>,
      <<"p">>, <<"p","r","e">>, <<"s">>,
      <<"s","m","a","l","l">>, <<"s","p","a","n">>, <<"s","t","r","o","n","g">>,
      <<"s","u","b">>, <<"s","u","p">>, <<"t","a","b","l","e">>,
      <<"t","b","o","d","y">>, <<"t","d">>, <<"t","h">>,
      <<"t","h","e","a","d">>, <<"t","r">>, <<"u">>,
      <<"u","l">>, <<"h","r">>, <<"h","1">>,
      <<"h","2">>, <<"h","3">>, <<"h","4">>,
      <<"h","5">>, <<"h","6">>, <<"s","e","c","t","i","o","n">>,
      <<"a","r","t","i","c","l","e">>, <<"n","a","v">>, <<"h","e","a","d","e","r">>,
      <<"f","o","o","t","e","r">> }

GLOBAL_ATTRS ==
    { <<"c","l","a","s","s">>, <<"i","d">>, <<"t","i","t","l","e">>, <<"r","o","l","e">> }

\* TAG_ATTRS[tag] || new Set()
TAG_ATTRS(tag) ==
    IF tag = <<"a">>
    THEN { <<"h","r","e","f">>, <<"t","a","r","g","e","t">>, <<"r","e","l">> }
    ELSE IF tag = <<"i","m","g">>
    THEN { <<"s","r","c">>, <<"a","l","t">>, <<"w","i","d","t","h">>,
           <<"h","e","i","g","h","t">> }
    ELSE {}

ALWAYS_DROP ==
    { <<"s","c","r","i","p","t">>, <<"s","t","y","l","e">>, <<"t","e","m","p","l","a","t","e">>,
      <<"i","f","r","a","m","e">>, <<"o","b","j","e","c","t">>, <<"e","m","b","e","d">>,
      <<"s","v","g">>, <<"m","a","t","h">>, <<"b","a","s","e">>,
      <<"l","i","n","k">>, <<"m","e","t","a">> }

(***************************************************************************)
(* The URL validator and the attribute filter: lines 32-65.                *)
(***************************************************************************)
\* a validator that refuses the four named schemes and nothing else
isSafeUrlDenylistOnly(raw) ==
    IF raw = <<>> THEN TRUE
    ELSE LET value == trim(raw)
             compact == toLowerCase(removeControlAndSpace(value))
         IN IF startsWith(compact, <<"j","a","v","a","s","c","r","i","p","t",":">>) THEN FALSE
            ELSE IF startsWith(compact, <<"v","b","s","c","r","i","p","t",":">>) THEN FALSE
            ELSE IF startsWith(compact, <<"d","a","t","a",":">>) THEN FALSE
            ELSE IF startsWith(compact, <<"f","i","l","e",":">>) THEN FALSE
            ELSE TRUE

isSafeUrl(raw) ==
    IF raw = <<>> THEN TRUE
    ELSE LET value == trim(raw)
             compact == toLowerCase(removeControlAndSpace(value))
             colon == indexOf(compact, ":")
         IN IF startsWith(compact, <<"j","a","v","a","s","c","r","i","p","t",":">>) THEN FALSE
            ELSE IF startsWith(compact, <<"v","b","s","c","r","i","p","t",":">>) THEN FALSE
            ELSE IF startsWith(compact, <<"d","a","t","a",":">>) THEN FALSE
            ELSE IF startsWith(compact, <<"f","i","l","e",":">>) THEN FALSE
            ELSE IF startsWith(compact, <<"/","/">>) THEN TRUE
            ELSE IF colon > 0
                 THEN LET scheme == slice0(compact, colon)
                      IN scheme = <<"h","t","t","p">> \/ scheme = <<"h","t","t","p","s">>
                 ELSE TRUE

\* a filter that only refuses what it knows to be dangerous
isAllowedAttrDenylist(tag, name) ==
    LET n == toLowerCase(name)
    IN IF startsWith(n, <<"o","n">>) THEN FALSE
       ELSE IF n = <<"s","t","y","l","e">> THEN FALSE
       ELSE TRUE

isAllowedAttr(tag, name) ==
    LET n == toLowerCase(name)
    IN IF startsWith(n, <<"o","n">>) THEN FALSE
       ELSE IF n = <<"s","t","y","l","e">> THEN FALSE
       ELSE IF n \in GLOBAL_ATTRS THEN TRUE
       ELSE n \in TAG_ATTRS(tag)

(***************************************************************************)
(* The DOM the sanitizer works on (the interface of spec section 6, as the *)
(* code uses it).  A node is                                               *)
(*   [kind, tagName, attributes, childNodes, parentNode]                   *)
(* with attributes a sequence of [name, value] and childNodes a sequence   *)
(* of node ids.                                                            *)
(***************************************************************************)
Body == 0
NoParent == -1

TextName == <<"#","t","e","x","t">>

\* a sequence without the occurrences of x
Without(s, x) == SelectSeq(s, LAMBDA y : y # x)

\* Node.remove(): detach el, with its subtree, from its parent
removeNode(d, el) ==
    LET p == d[el].parentNode
    IN IF p = NoParent THEN d
       ELSE [d EXCEPT ![p].childNodes = Without(@, el),
                      ![el].parentNode = NoParent]

\* Node.insertBefore(node, ref): node leaves its parent and goes before ref
insertBefore(d, parent, node, ref) ==
    LET d1 == removeNode(d, node)
        kids == d1[parent].childNodes
        at == CHOOSE i \in 1..Len(kids) : kids[i] = ref
    IN [d1 EXCEPT ![parent].childNodes =
                      SubSeq(kids, 1, at - 1) \o <<node>> \o SubSeq(kids, at, Len(kids)),
                  ![node].parentNode = parent]

\* Element.getAttribute(name): <<>> for null, <<value>> otherwise
getAttribute(d, el, name) ==
    LET as == d[el].attributes
    IN IF \E i \in 1..Len(as) : as[i].name = name
       THEN <<as[CHOOSE i \in 1..Len(as) : as[i].name = name].value>>
       ELSE <<>>

\* Element.removeAttribute(attr.name), attr an attribute of el
removeAttribute(d, el, name) ==
    [d EXCEPT ![el].attributes = SelectSeq(@, LAMBDA a : a.name # name)]

\* Element.setAttribute(name, value): in place when present, else appended
setAttribute(d, el, name, value) ==
    LET as == d[el].attributes
    IN IF \E i \in 1..Len(as) : as[i].name = name
       THEN [d EXCEPT ![el].attributes =
                [i \in 1..Len(as) |->
                    IF as[i].name = name THEN [name |-> name, value |-> value]
                    ELSE as[i]]]
       ELSE [d EXCEPT ![el].attributes = Append(as, [name |-> name, value |-> value])]

\* the nodes below the nodes of list, in document order
RECURSIVE preorder(_, _)
preorder(d, list) ==
    IF list = <<>> THEN <<>>
    ELSE <<Head(list)>> \o preorder(d, d[Head(list)].childNodes)
                        \o preorder(d, Tail(list))

\* root.querySelectorAll("*"), as an array
querySelectorAll(d, root) ==
    SelectSeq(preorder(d, d[root].childNodes), LAMBDA n : d[n].kind = "element")

\* root.innerHTML: the serializer's output, one token per tag and text
RECURSIVE serialize(_, _)
serialize(d, list) ==
    IF list = <<>> THEN <<>>
    ELSE LET n == Head(list)
         IN (IF d[n].kind = "text"
             THEN <<[type |-> "text", name |-> TextName, attributes |-> <<>>, data |-> n]>>
             ELSE <<[type |-> "open", name |-> toLowerCase(d[n].tagName),
                     attributes |-> d[n].attributes, data |-> n]>>
                  \o serialize(d, d[n].childNodes)
                  \o <<[type |-> "close", name |-> toLowerCase(d[n].tagName),
                        attributes |-> <<>>, data |-> n]>>)
            \o serialize(d, Tail(list))

innerHTML(d, root) == serialize(d, d[root].childNodes)

(***************************************************************************)
(* The link hardener, unwrap and the element classifier: lines 67-121.     *)
(***************************************************************************)
\* a hardener that writes the two tokens over what was there
ensureSafeLinkAttrsOverwrite(d, el) ==
    LET tag == toLowerCase(d[el].tagName)
    IN IF tag = <<"a">>
          /\ getAttribute(d, el, <<"t","a","r","g","e","t">>) = << <<"_","b","l","a","n","k">> >>
       THEN setAttribute(d, el, <<"r","e","l">>,
                         <<"n","o","o","p","e","n","e","r"," ",
                           "n","o","r","e","f","e","r","r","e","r">>)
       ELSE d

\* a hardener that adds the two tokens to the end without looking for them
ensureSafeLinkAttrsAppend(d, el) ==
    LET tag == toLowerCase(d[el].tagName)
    IN IF tag = <<"a">>
          /\ getAttribute(d, el, <<"t","a","r","g","e","t">>) = << <<"_","b","l","a","n","k">> >>
       THEN LET got == getAttribute(d, el, <<"r","e","l">>)
                rel == toLowerCase(IF got = <<>> THEN <<>> ELSE got[1])
                needed == << <<"n","o","o","p","e","n","e","r">>,
                             <<"n","o","r","e","f","e","r","r","e","r">> >>
            IN setAttribute(d, el, <<"r","e","l">>,
                            joinSpace(splitWhitespace(rel, <<>>) \o needed))
       ELSE d

\* a hardener that does not look at target: every anchor gets the tokens
ensureSafeLinkAttrsAnyTarget(d, el) ==
    LET tag == toLowerCase(d[el].tagName)
    IN IF tag = <<"a">>
       THEN LET got == getAttribute(d, el, <<"r","e","l">>)
                rel == toLowerCase(IF got = <<>> THEN <<>> ELSE got[1])
                needed == << <<"n","o","o","p","e","n","e","r">>,
                             <<"n","o","r","e","f","e","r","r","e","r">> >>
                parts == uniqueInOrder(splitWhitespace(rel, <<>>) \o needed)
            IN setAttribute(d, el, <<"r","e","l">>, joinSpace(parts))
       ELSE d

ensureSafeLinkAttrs(d, el) ==
    LET tag == toLowerCase(d[el].tagName)
    IN IF tag = <<"a">>
          /\ getAttribute(d, el, <<"t","a","r","g","e","t">>) = << <<"_","b","l","a","n","k">> >>
       THEN LET got == getAttribute(d, el, <<"r","e","l">>)
                rel == toLowerCase(IF got = <<>> THEN <<>> ELSE got[1])
                needed == << <<"n","o","o","p","e","n","e","r">>,
                             <<"n","o","r","e","f","e","r","r","e","r">> >>
                parts == uniqueInOrder(splitWhitespace(rel, <<>>) \o needed)
            IN setAttribute(d, el, <<"r","e","l">>, joinSpace(parts))
       ELSE d

\* a loop that takes the children from the end: while (el.lastChild) ...
RECURSIVE moveChildrenBeforeReversed(_, _, _)
moveChildrenBeforeReversed(d, el, parent) ==
    IF d[el].childNodes = <<>> THEN d
    ELSE LET kids == d[el].childNodes
         IN moveChildrenBeforeReversed(insertBefore(d, parent, kids[Len(kids)], el),
                                       el, parent)

\* while (el.firstChild) parent.insertBefore(el.firstChild, el)
RECURSIVE moveChildrenBefore(_, _, _)
moveChildrenBefore(d, el, parent) ==
    IF d[el].childNodes = <<>> THEN d
    ELSE moveChildrenBefore(insertBefore(d, parent, Head(d[el].childNodes), el),
                            el, parent)

\* an unwrap that saves the content of an element that is no longer under the
\* body by putting it at the end of the body
unwrapElementIntoBody(d, el) ==
    LET parent == d[el].parentNode
        attached == el \in {n \in DOMAIN d : n \in Range(preorder(d, d[Body].childNodes))}
    IN IF parent = NoParent THEN removeNode(d, el)
       ELSE IF attached THEN removeNode(moveChildrenBefore(d, el, parent), el)
       ELSE LET moved == d[el].childNodes
                d1 == [n \in DOMAIN d |->
                         IF n = el THEN [d[n] EXCEPT !.childNodes = <<>>]
                         ELSE IF n = Body THEN [d[n] EXCEPT !.childNodes = @ \o moved]
                         ELSE IF n \in Range(moved) THEN [d[n] EXCEPT !.parentNode = Body]
                         ELSE d[n]]
            IN removeNode(d1, el)

unwrapElement(d, el) ==
    LET parent == d[el].parentNode
    IN IF parent = NoParent THEN removeNode(d, el)
       ELSE removeNode(moveChildrenBefore(d, el, parent), el)

\* the loop over Array.from(el.attributes), from its i-th entry on
RECURSIVE sanitizeAttributes(_, _, _, _)
sanitizeAttributes(d, el, snapshot, i) ==
    IF i > Len(snapshot) THEN d
    ELSE LET tag == toLowerCase(d[el].tagName)
             attr == snapshot[i]
             name == toLowerCase(attr.name)
             value == attr.value
         IN IF ~isAllowedAttr(tag, name)
            THEN sanitizeAttributes(removeAttribute(d, el, attr.name), el, snapshot, i + 1)
            ELSE IF (name = <<"h","r","e","f">> \/ name = <<"s","r","c">>)
                    /\ ~isSafeUrl(value)
            THEN sanitizeAttributes(removeAttribute(d, el, attr.name), el, snapshot, i + 1)
            ELSE sanitizeAttributes(d, el, snapshot, i + 1)

\* a classifier that forgets the unwrap branch: an unknown tag is filtered and kept
sanitizeElementKeepUnknown(d, el) ==
    LET tag == toLowerCase(d[el].tagName)
    IN IF tag \in ALWAYS_DROP THEN removeNode(d, el)
       ELSE ensureSafeLinkAttrs(sanitizeAttributes(d, el, d[el].attributes, 1), el)

\* a classifier that tests the allowlist before the drop list
sanitizeElementUnwrapFirst(d, el) ==
    LET tag == toLowerCase(d[el].tagName)
    IN IF tag \notin SAFE_ELEMENTS THEN unwrapElement(d, el)
       ELSE IF tag \in ALWAYS_DROP THEN removeNode(d, el)
       ELSE ensureSafeLinkAttrs(sanitizeAttributes(d, el, d[el].attributes, 1), el)

sanitizeElement(d, el) ==
    LET tag == toLowerCase(d[el].tagName)
    IN IF tag \in ALWAYS_DROP THEN removeNode(d, el)
       ELSE IF tag \notin SAFE_ELEMENTS THEN unwrapElement(d, el)
       ELSE ensureSafeLinkAttrs(sanitizeAttributes(d, el, d[el].attributes, 1), el)

\* walkAndSanitize's loop over the snapshot, from its i-th entry on
RECURSIVE walkFrom(_, _, _)
walkFrom(d, snapshot, i) ==
    IF i > Len(snapshot) THEN d
    ELSE walkFrom(sanitizeElement(d, snapshot[i]), snapshot, i + 1)

walkAndSanitize(d, root) == walkFrom(d, querySelectorAll(d, root), 1)

(***************************************************************************)
(* The state of one call sanitize(html, options): lines 137-154.           *)
(*   pc       where the call is: "called", "walking", "returned", "threw"  *)
(*   html     the argument: null, undefined, or a string (held as the      *)
(*            document the builder makes of it)                            *)
(*   options  the options argument, window the ambient global              *)
(*   builder  the document builder that was called, "none" before          *)
(*   dom      the working tree, nodes the walker's snapshot, idx the       *)
(*            position of the walker's loop in it                          *)
(*   result   the returned string (the serializer's tokens)                *)
(***************************************************************************)
VARIABLES pc, html, options, window, builder, dom, nodes, idx, result

vars == <<pc, html, options, window, builder, dom, nodes, idx, result>>

NoDocument == <<>>

\* an entry point that looks for the ambient parser first
sanitizeAmbientFirst ==
    /\ pc = "called"
    /\ IF html.kind \in {"null", "undefined"}
       THEN /\ pc' = "returned"
            /\ result' = <<>>
            /\ UNCHANGED <<builder, dom, nodes, idx>>
       ELSE IF window = "DOMParser"
       THEN /\ builder' = "DOMParser"
            /\ dom' = html.doc
            /\ nodes' = querySelectorAll(html.doc, Body)
            /\ idx' = 1
            /\ pc' = "walking"
            /\ UNCHANGED result
       ELSE IF options.createDocument = "function"
       THEN /\ builder' = "createDocument"
            /\ dom' = html.doc
            /\ nodes' = querySelectorAll(html.doc, Body)
            /\ idx' = 1
            /\ pc' = "walking"
            /\ UNCHANGED result
       ELSE /\ pc' = "threw"
            /\ UNCHANGED <<builder, dom, nodes, idx, result>>
    /\ UNCHANGED <<html, options, window>>

\* lines 137-152: the null check, the choice of the builder, the snapshot
sanitize ==
    /\ pc = "called"
    /\ IF html.kind \in {"null", "undefined"}
       THEN /\ pc' = "returned"
            /\ result' = <<>>
            /\ UNCHANGED <<builder, dom, nodes, idx>>
       ELSE IF options.createDocument = "function"
       THEN /\ builder' = "createDocument"
            /\ dom' = html.doc
            /\ nodes' = querySelectorAll(html.doc, Body)
            /\ idx' = 1
            /\ pc' = "walking"
            /\ UNCHANGED result
       ELSE IF window = "DOMParser"
       THEN /\ builder' = "DOMParser"
            /\ dom' = html.doc
            /\ nodes' = querySelectorAll(html.doc, Body)
            /\ idx' = 1
            /\ pc' = "walking"
            /\ UNCHANGED result
       ELSE /\ pc' = "threw"
            /\ UNCHANGED <<builder, dom, nodes, idx, result>>
    /\ UNCHANGED <<html, options, window>>

\* line 126: one turn of the loop over the snapshot
walkAndSanitizeStep ==
    /\ pc = "walking"
    /\ idx <= Len(nodes)
    /\ dom' = sanitizeElement(dom, nodes[idx])
    /\ idx' = idx + 1
    /\ UNCHANGED <<pc, html, options, window, builder, nodes, result>>

\* line 153: the loop is over, the body is serialized and returned
sanitizeReturn ==
    /\ pc = "walking"
    /\ idx > Len(nodes)
    /\ result' = innerHTML(dom, Body)
    /\ pc' = "returned"
    /\ UNCHANGED <<html, options, window, builder, dom, nodes, idx>>

Next == sanitize \/ walkAndSanitizeStep \/ sanitizeReturn

(***************************************************************************)
(* The inputs.                                                             *)
(***************************************************************************)
BodyNode(kids) ==
    [kind |-> "element", tagName |-> <<"B","O","D","Y">>, attributes |-> <<>>,
     childNodes |-> kids, parentNode |-> NoParent]

ElementNode(tag, attrs, kids, parent) ==
    [kind |-> "element", tagName |-> tag, attributes |-> attrs,
     childNodes |-> kids, parentNode |-> parent]

TextNode(parent) ==
    [kind |-> "text", tagName |-> TextName, attributes |-> <<>>,
     childNodes |-> <<>>, parentNode |-> parent]

\* a set of numbers as an increasing sequence
RECURSIVE Sorted(_)
Sorted(S) ==
    IF S = {} THEN <<>>
    ELSE LET m == CHOOSE x \in S : \A y \in S : x <= y
         IN <<m>> \o Sorted(S \ {m})

\* the ancestors of node i, i included, under the parent function par
RECURSIVE AncestorsOrSelf(_, _)
AncestorsOrSelf(par, i) ==
    IF i = Body THEN {Body} ELSE {i} \cup AncestorsOrSelf(par, par[i])

\* the ordered trees of n nodes below the body, nodes numbered in document order
Shapes(n) ==
    {par \in [1..n -> 0..(n - 1)] :
        \A i \in 1..n : /\ par[i] < i
                        /\ i > 1 => par[i] \in AncestorsOrSelf(par, i - 1)}

\* tag names as the DOM reports them: a kept one, a dropped one, an unknown one
TreeTags == { <<"P">>, <<"S","C","R","I","P","T">>, <<"c","u","s","t","o","m">> }

Labelings(n, par) ==
    {lab \in [1..n -> TreeTags \cup {TextName}] :
        \A i \in 1..n : lab[i] = TextName => \A j \in 1..n : par[j] # i}

TreeDocument(n, par, lab) ==
    [i \in 0..n |->
        LET kids == Sorted({j \in 1..n : par[j] = i})
        IN IF i = Body THEN BodyNode(kids)
           ELSE IF lab[i] = TextName THEN TextNode(par[i])
           ELSE ElementNode(lab[i], <<>>, kids, par[i])]

\* the test harness of src/unnamed/part_000: createDocument given, no window
InitCall(document) ==
    /\ pc = "called"
    /\ html = [kind |-> "string", doc |-> document]
    /\ options = [createDocument |-> "function"]
    /\ window = "undefined"
    /\ builder = "none"
    /\ dom = NoDocument
    /\ nodes = <<>>
    /\ idx = 0
    /\ result = <<>>

Init ==
    \E n \in 0..MaxNodes : \E par \in Shapes(n) : \E lab \in Labelings(n, par) :
        InitCall(TreeDocument(n, par, lab))

Spec == Init /\ [][Next]_vars

\* one element under the body, with its attributes
OneElementDocument(tag, attrs) ==
    [i \in 0..1 |->
        IF i = Body THEN BodyNode(<<1>>) ELSE ElementNode(tag, attrs, <<>>, Body)]

Attr(n, v) == [name |-> n, value |-> v]

\* attributes of every kind the filter tells apart, names in either case
AttrChoices ==
    { Attr(<<"h","r","e","f">>, <<"h","t","t","p","s",":","/","/","h">>),
      Attr(<<"h","r","e","f">>, <<"j","a","v","a","s","c","r","i","p","t",":","a">>),
      Attr(<<"H","R","E","F">>, <<"j","a","v","a","\t","s","c","r","i","p","t",":","a">>),
      Attr(<<"s","r","c">>, <<"/","p">>),
      Attr(<<"s","r","c">>, <<"d","a","t","a",":","a">>),
      Attr(<<"t","a","r","g","e","t">>, <<"_","b","l","a","n","k">>),
      Attr(<<"t","a","r","g","e","t">>, <<"_","s","e","l","f">>),
      Attr(<<"r","e","l">>, <<"N","o","F","o","l","l","o","w">>),
      Attr(<<"o","n","c","l","i","c","k">>, <<"v">>),
      Attr(<<"O","n","C","l","i","c","k">>, <<"v">>),
      Attr(<<"s","t","y","l","e">>, <<"v">>),
      Attr(<<"S","T","Y","L","E">>, <<"v">>),
      Attr(<<"c","l","a","s","s">>, <<"v">>),
      Attr(<<"T","i","t","l","e">>, <<"v">>),
      Attr(<<"d","a","t","a","-","x">>, <<"v">>),
      Attr(<<"a","l","t">>, <<"v">>) }

AttrTags == { <<"A">>, <<"i","m","g">>, <<"P">> }

\* the attribute lists of at most max attributes, no name twice
AttrLists(max) ==
    UNION { {as \in [1..k -> AttrChoices] :
                \A i \in 1..k, j \in 1..k : i # j => as[i].name # as[j].name}
            : k \in 0..max }

InitAttr ==
    \E tag \in AttrTags : \E as \in AttrLists(MaxAttrs) :
        InitCall(OneElementDocument(tag, as))

SpecAttr == InitAttr /\ [][Next]_vars

\* s with the character c put in after its first i characters
InsertAt(s, i, c) == SubSeq(s, 1, i) \o <<c>> \o SubSeq(s, i + 1, Len(s))

\* s with its i-th character in upper case
UpperAt(s, i) == [s EXCEPT ![i] = UpperChar(s[i])]

\* one character hidden in s, or one letter of s in upper case
Disguises(s) ==
    {InsertAt(s, i, c) : i \in 0..Len(s), c \in {"\t", " ", "x01"}}
      \cup {UpperAt(s, i) : i \in 1..Len(s)}

RECURSIVE Disguised(_, _)
Disguised(S, k) ==
    IF k = 0 THEN S ELSE S \cup Disguised(UNION {Disguises(s) : s \in S}, k - 1)

UrlBases ==
    { <<"j","a","v","a","s","c","r","i","p","t",":","a">>,
      <<"v","b","s","c","r","i","p","t",":">>,
      <<"d","a","t","a",":">>,
      <<"f","i","l","e",":">>,
      <<"h","t","t","p",":","/","/","h">>,
      <<"h","t","t","p","s",":","h">>,
      <<"f","t","p",":","h">>,
      <<"/","/","h",":","8">>,
      <<"/","p">>,
      <<":","a">>,
      <<"a">>,
      <<>> }

\* an anchor with an href, an image with a src, names in either case
UrlCarriers ==
    { <<  <<"A">>, <<"h","r","e","f">>  >>,
      <<  <<"I","M","G">>, <<"s","r","c">>  >>,
      <<  <<"a">>, <<"H","r","e","f">>  >> }

InitUrl ==
    \E c \in UrlCarriers : \E v \in Disguised(UrlBases, MaxInserted) :
        InitCall(OneElementDocument(c[1], <<Attr(c[2], v)>>))

SpecUrl == InitUrl /\ [][Next]_vars

\* the tokens a rel value is made of, some in upper case
RelTokens ==
    { <<"n","o","f","o","l","l","o","w">>, <<"N","o","F","o","l","l","o","w">>,
      <<"n","o","o","p","e","n","e","r">>, <<"N","O","O","P","E","N","E","R">>,
      <<"n","o","r","e","f","e","r","r","e","r">> }

RelSeparators == { <<" ">>, <<"\t","\n">> }

RelPads == { <<>>, <<" ">> }

\* the values of exactly k tokens, without whitespace around them
RECURSIVE RelCores(_)
RelCores(k) ==
    IF k = 0 THEN {<<>>}
    ELSE IF k = 1 THEN RelTokens
    ELSE {c \o s \o tok : c \in RelCores(k - 1), s \in RelSeparators, tok \in RelTokens}

RelValues(max) ==
    UNION { {pad \o c \o pad : pad \in RelPads, c \in RelCores(k)} : k \in 0..max }

\* the attribute lists of an anchor: a target or none, a rel or none, either first
RelAttrLists(max) ==
    LET targets == {Attr(<<"t","a","r","g","e","t">>, v) :
                       v \in {<<"_","b","l","a","n","k">>, <<"_","s","e","l","f">>}}
        rels == {Attr(<<"r","e","l">>, v) : v \in RelValues(max)}
    IN {<<>>} \cup {<<tg>> : tg \in targets} \cup {<<r>> : r \in rels}
         \cup {<<tg, r>> : tg \in targets, r \in rels}
         \cup {<<r, tg>> : tg \in targets, r \in rels}

\* an anchor with a text in it, directly under the body or inside an unknown element
AnchorDocument(wrapped, attrs) ==
    IF wrapped
    THEN [i \in 0..3 |->
             IF i = Body THEN BodyNode(<<1>>)
             ELSE IF i = 1 THEN ElementNode(<<"c","u","s","t","o","m">>, <<>>, <<2>>, Body)
             ELSE IF i = 2 THEN ElementNode(<<"A">>, attrs, <<3>>, 1)
             ELSE TextNode(2)]
    ELSE [i \in 0..2 |->
             IF i = Body THEN BodyNode(<<1>>)
             ELSE IF i = 1 THEN ElementNode(<<"A">>, attrs, <<2>>, Body)
             ELSE TextNode(1)]

InitRel ==
    \E w \in BOOLEAN : \E as \in RelAttrLists(MaxRelTokens) :
        InitCall(AnchorDocument(w, as))

SpecRel == InitRel /\ [][Next]_vars

\* every family of documents at once
InitAll == Init \/ InitAttr \/ InitRel

SpecAll == InitAll /\ [][Next]_vars

\* the calls of the entry point: every kind of html, options and window
InitEntry ==
    /\ pc = "called"
    /\ \/ html \in {[kind |-> k, doc |-> NoDocument] : k \in {"null", "undefined"}}
       \/ \E n \in 0..MaxEntryNodes : \E par \in Shapes(n) : \E lab \in Labelings(n, par) :
             html = [kind |-> "string", doc |-> TreeDocument(n, par, lab)]
    /\ options \in {[createDocument |-> c] : c \in {"undefined", "null", "string", "function"}}
    /\ window \in {"undefined", "noDOMParser", "DOMParser"}
    /\ builder = "none"
    /\ dom = NoDocument
    /\ nodes = <<>>
    /\ idx = 0
    /\ result = <<>>

SpecEntry == InitEntry /\ [][Next]_vars

(***************************************************************************)
(* Vocabulary of the properties.                                           *)
(***************************************************************************)
\* the tree the builder returned, before the walk
Input == html.doc

\* its nodes, the body left out
InputNodes == DOMAIN Input \ {Body}

\* walkAndSanitize has finished (and the call may have returned)
WalkDone ==
    \/ pc = "walking" /\ idx > Len(nodes)
    \/ pc = "returned" /\ html.kind = "string"

\* the nodes of d under the body
Reachable(d) == Range(preorder(d, d[Body].childNodes))

IsElement(d, n) == d[n].kind = "element"
IsText(d, n) == d[n].kind = "text"
TagOf(d, n) == toLowerCase(d[n].tagName)
IsDropTag(d, n) == IsElement(d, n) /\ TagOf(d, n) \in ALWAYS_DROP
IsSafeTag(d, n) == IsElement(d, n) /\ TagOf(d, n) \in SAFE_ELEMENTS
IsUnknownTag(d, n) ==
    IsElement(d, n) /\ TagOf(d, n) \notin ALWAYS_DROP \cup SAFE_ELEMENTS

\* the proper ancestors of n in d, the body included
RECURSIVE Ancestors(_, _)
Ancestors(d, n) ==
    IF d[n].parentNode = NoParent THEN {}
    ELSE {d[n].parentNode} \cup Ancestors(d, d[n].parentNode)

HasDroppedAncestor(d, n) == \E a \in Ancestors(d, n) : IsDropTag(d, a)

(***************************************************************************)
(* C1. Tag allowlist closure: once the walk has finished, every element    *)
(* reachable from the body has a lowercased tag in SAFE_ELEMENTS, and so   *)
(* has every tag of the returned markup, whatever the nesting of kept,     *)
(* unknown and dropped elements in the input.                              *)
(***************************************************************************)
\* C1: every element left under the body, and every tag returned, is in SAFE_ELEMENTS
TagAllowlistClosure ==
    /\ WalkDone =>
          \A n \in Reachable(dom) : IsElement(dom, n) => TagOf(dom, n) \in SAFE_ELEMENTS
    /\ pc = "returned" =>
          \A i \in 1..Len(result) :
              result[i].type \in {"open", "close"} => result[i].name \in SAFE_ELEMENTS

\* an unknown element inside an unknown element, with a kept element inside, walked
TagAllowlistWitness ==
    /\ WalkDone
    /\ \E u \in InputNodes, v \in InputNodes, s \in InputNodes :
          /\ IsUnknownTag(Input, u) /\ IsUnknownTag(Input, v) /\ IsSafeTag(Input, s)
          /\ Input[v].parentNode = u /\ Input[s].parentNode = v
          /\ s \in Reachable(dom)

(***************************************************************************)
(* C2. Drop completeness: once the walk has finished, no element with a    *)
(* tag of ALWAYS_DROP and no node that was below one in the input is       *)
(* reachable from the body or named in the returned markup.                *)
(***************************************************************************)
\* C2: nothing that was a dropped element or below one is left under the body
DropCompleteness ==
    /\ WalkDone =>
          \A n \in InputNodes :
              (IsDropTag(Input, n) \/ HasDroppedAncestor(Input, n)) => n \notin Reachable(dom)
    /\ pc = "returned" /\ html.kind = "string" =>
          \A i \in 1..Len(result) :
              ~(IsDropTag(Input, result[i].data) \/ HasDroppedAncestor(Input, result[i].data))

\* a dropped element under an unknown one, with an unknown element and a text below it
DropCompletenessWitness ==
    /\ WalkDone
    /\ \E u \in InputNodes, x \in InputNodes, v \in InputNodes, t \in InputNodes :
          /\ IsUnknownTag(Input, u) /\ IsDropTag(Input, x) /\ IsUnknownTag(Input, v)
          /\ IsText(Input, t)
          /\ Input[x].parentNode = u /\ Input[v].parentNode = x /\ Input[t].parentNode = v
          /\ t \notin Reachable(dom)

(***************************************************************************)
(* C3. Unwrap preservation: once the walk has finished, no unknown element *)
(* is reachable; the children of the body and of every kept element are    *)
(* its input children with every dropped child left out and every unknown  *)
(* child replaced, in place, by what survives of that child's children;    *)
(* and the text nodes that had no dropped ancestor are all there, in their *)
(* input order.                                                            *)
(***************************************************************************)
\* what survives of a list of input siblings, in place
RECURSIVE Spliced(_)
Spliced(list) ==
    IF list = <<>> THEN <<>>
    ELSE LET c == Head(list)
         IN (IF IsText(Input, c) \/ IsSafeTag(Input, c) THEN <<c>>
             ELSE IF IsDropTag(Input, c) THEN <<>>
             ELSE Spliced(Input[c].childNodes))
            \o Spliced(Tail(list))

\* C3: unknown elements are gone, their surviving children are in their place and
\* in order, and the surviving texts keep their document order
UnwrapPreservation ==
    WalkDone =>
       /\ \A n \in InputNodes : IsUnknownTag(Input, n) => n \notin Reachable(dom)
       /\ \A s \in Reachable(dom) \cup {Body} :
             dom[s].childNodes = Spliced(Input[s].childNodes)
       /\ SelectSeq(preorder(dom, dom[Body].childNodes), LAMBDA n : IsText(dom, n))
            = SelectSeq(preorder(Input, Input[Body].childNodes),
                        LAMBDA n : IsText(Input, n) /\ ~HasDroppedAncestor(Input, n))

\* an unknown element with two children, between two siblings, walked
UnwrapPreservationWitness ==
    /\ WalkDone
    /\ \E u \in InputNodes :
          /\ IsUnknownTag(Input, u)
          /\ ~HasDroppedAncestor(Input, u)
          /\ Len(Input[u].childNodes) >= 2
          /\ LET sibs == Input[Input[u].parentNode].childNodes
             IN Len(sibs) >= 2 /\ sibs[1] # u
          /\ \A c \in Range(Input[u].childNodes) : c \in Reachable(dom)

(***************************************************************************)
(* C9. Detached-node tolerance: a turn of the walker's loop on an element  *)
(* that is no longer reachable from the body raises nothing and leaves     *)
(* every reachable node as it was, and the returned markup is that of a    *)
(* walk that skips every element it finds detached.                        *)
(***************************************************************************)
RECURSIVE walkSkippingDetached(_, _, _)
walkSkippingDetached(d, snapshot, i) ==
    IF i > Len(snapshot) THEN d
    ELSE IF snapshot[i] \in Reachable(d)
    THEN walkSkippingDetached(sanitizeElement(d, snapshot[i]), snapshot, i + 1)
    ELSE walkSkippingDetached(d, snapshot, i + 1)

DetachedStepChangesNothing ==
    (pc = "walking" /\ idx <= Len(nodes) /\ nodes[idx] \notin Reachable(dom))
       => /\ pc' # "threw"
          /\ Reachable(dom') = Reachable(dom)
          /\ \A n \in Reachable(dom) \cup {Body} : dom'[n] = dom[n]

SkippingWalkGivesTheSame ==
    WalkDone =>
       LET skipped == walkSkippingDetached(Input, querySelectorAll(Input, Body), 1)
       IN /\ innerHTML(dom, Body) = innerHTML(skipped, Body)
          /\ pc = "returned" => result = innerHTML(skipped, Body)

\* C9: a turn on a detached element changes no reachable node and raises nothing,
\* and the result is that of a walk skipping detached elements
DetachedNodeTolerance ==
    [][DetachedStepChangesNothing]_vars /\ []SkippingWalkGivesTheSame

\* the walker has just unwrapped an unknown element with a child, and has kept an
\* element, both below a dropped element
DetachedNodeWitness ==
    /\ pc = "walking"
    /\ idx > 2
    /\ \E i \in 1..(idx - 1), j \in 1..(idx - 1) :
          /\ IsUnknownTag(Input, nodes[i]) /\ HasDroppedAncestor(Input, nodes[i])
          /\ Input[nodes[i]].childNodes # <<>>
          /\ dom[nodes[i]].childNodes = <<>>
          /\ IsSafeTag(Input, nodes[j]) /\ HasDroppedAncestor(Input, nodes[j])

(***************************************************************************)
(* C4. URL scheme rejection: once the walk has finished, an href or src    *)
(* on a reachable element has a value that is empty or that, with every    *)
(* control and whitespace character taken out and in lower case, does not  *)
(* start with javascript:, vbscript:, data: or file: and either starts     *)
(* with //, or has its first colon after the text http or https, or has no *)
(* colon after its first character; and an href of an anchor or a src of   *)
(* an image with such a value is still there.                              *)
(***************************************************************************)
Href == <<"h","r","e","f">>
Src == <<"s","r","c">>

\* the value as the claim reads it
Effective(value) ==
    toLowerCase(SelectSeq(value, LAMBDA c : c \notin ControlChars /\ c \notin WhitespaceChars))

FirstColon(v) == CHOOSE i \in 1..Len(v) : v[i] = ":" /\ \A j \in 1..(i - 1) : v[j] # ":"

AcceptedByTheClaim(value) ==
    \/ value = <<>>
    \/ LET v == Effective(value)
       IN /\ ~startsWith(v, <<"j","a","v","a","s","c","r","i","p","t",":">>)
          /\ ~startsWith(v, <<"v","b","s","c","r","i","p","t",":">>)
          /\ ~startsWith(v, <<"d","a","t","a",":">>)
          /\ ~startsWith(v, <<"f","i","l","e",":">>)
          /\ \/ startsWith(v, <<"/","/">>)
             \/ ":" \notin Range(v)
             \/ FirstColon(v) = 1
             \/ SubSeq(v, 1, FirstColon(v) - 1) \in {<<"h","t","t","p">>, <<"h","t","t","p","s">>}

\* C4: an href or src is left on a reachable element only with a value the claim's
\* procedure accepts, and an allowed href or src with such a value is left
UrlSchemeRejection ==
    WalkDone =>
       \A n \in Reachable(dom) :
          /\ \A i \in 1..Len(dom[n].attributes) :
                toLowerCase(dom[n].attributes[i].name) \in {Href, Src}
                   => AcceptedByTheClaim(dom[n].attributes[i].value)
          /\ \A i \in 1..Len(Input[n].attributes) :
                LET a == Input[n].attributes[i]
                IN (/\ toLowerCase(a.name) \in TAG_ATTRS(TagOf(Input, n)) \cap {Href, Src}
                    /\ AcceptedByTheClaim(a.value))
                      => a \in Range(dom[n].attributes)

\* a javascript: scheme with a character hidden in it has been taken off
UrlSchemeRejectionWitness ==
    /\ WalkDone
    /\ \E n \in Reachable(dom) :
          /\ Input[n].attributes # <<>>
          /\ dom[n].attributes = <<>>
          /\ LET value == Input[n].attributes[1].value
             IN /\ \E i \in 1..Len(value) : i > 1 /\ i < 10 /\ value[i] \in ControlChars
                /\ startsWith(Effective(value), <<"j","a","v","a","s","c","r","i","p","t",":">>)

(***************************************************************************)
(* C5. Attribute allowlist closure: once the walk has finished, every      *)
(* attribute of every reachable element has a lowercased name that does    *)
(* not start with on, is not style, and is in GLOBAL_ATTRS or in the       *)
(* TAG_ATTRS of the element's tag; the rel the hardener writes included,   *)
(* whatever the letter case of the names in the input.                     *)
(***************************************************************************)
NameAllowedByTheTables(tag, name) ==
    LET n == toLowerCase(name)
    IN /\ ~startsWith(n, <<"o","n">>)
       /\ n # <<"s","t","y","l","e">>
       /\ n \in GLOBAL_ATTRS \cup TAG_ATTRS(tag)

\* C5: every attribute left on a reachable element is allowed by the tables and is
\* neither an on* name nor style
AttributeAllowlistClosure ==
    /\ WalkDone =>
          \A n \in Reachable(dom) :
             \A i \in 1..Len(dom[n].attributes) :
                NameAllowedByTheTables(TagOf(dom, n), dom[n].attributes[i].name)
    /\ pc = "returned" =>
          \A k \in 1..Len(result) :
             \A i \in 1..Len(result[k].attributes) :
                NameAllowedByTheTables(result[k].name, result[k].attributes[i].name)

\* an anchor that had target=_blank, an event handler in mixed case and no rel,
\* and now has a rel
AttributeAllowlistWitness ==
    /\ WalkDone
    /\ \E n \in Reachable(dom) :
          /\ TagOf(dom, n) = <<"a">>
          /\ getAttribute(Input, n, <<"r","e","l">>) = <<>>
          /\ getAttribute(Input, n, <<"O","n","C","l","i","c","k">>) # <<>>
          /\ getAttribute(dom, n, <<"r","e","l">>) # <<>>

(***************************************************************************)
(* C10. Removal is the only neutralization: once the walk has finished,    *)
(* the attributes of a reachable element are attributes of its input, with *)
(* their input values and in their input order; only the rel of an anchor  *)
(* whose target is _blank may differ, and on any other element no rel is   *)
(* added or rewritten.                                                     *)
(***************************************************************************)
Rel == <<"r","e","l">>
Target == <<"t","a","r","g","e","t">>
Blank == <<"_","b","l","a","n","k">>

IsBlankAnchor(d, n) == TagOf(d, n) = <<"a">> /\ getAttribute(d, n, Target) = <<Blank>>

\* after is before with some attributes taken out
OnlyRemoved(before, after) == after = SelectSeq(before, LAMBDA a : a \in Range(after))

\* C10: the attribute filter only removes; apart from the rel of an anchor whose
\* target is _blank, what is left has its input value and order
RemovalOnly ==
    WalkDone =>
       \A n \in Reachable(dom) :
          IsElement(dom, n) =>
             IF IsBlankAnchor(Input, n)
             THEN OnlyRemoved(SelectSeq(Input[n].attributes, LAMBDA a : a.name # Rel),
                              SelectSeq(dom[n].attributes, LAMBDA a : a.name # Rel))
             ELSE OnlyRemoved(Input[n].attributes, dom[n].attributes)

\* an anchor whose target is not _blank has lost an attribute and kept its rel
RemovalOnlyWitness ==
    /\ WalkDone
    /\ \E n \in Reachable(dom) :
          /\ TagOf(dom, n) = <<"a">>
          /\ ~IsBlankAnchor(Input, n)
          /\ Len(Input[n].attributes) = 2
          /\ Len(dom[n].attributes) = 1
          /\ getAttribute(dom, n, Rel) = << <<"N","o","F","o","l","l","o","w">> >>

(***************************************************************************)
(* C6. Link hardening.  As claimed: once the walk has finished, the rel of *)
(* a reachable anchor whose target is _blank is the tokens of the input    *)
(* rel (none when absent) as written, without repetitions and in order of  *)
(* first occurrence, then noopener and noreferrer where not among them,    *)
(* joined by single spaces.  The code reads the rel in lower case first;   *)
(* as amended, the tokens are those of the input rel in lower case.        *)
(***************************************************************************)
Noopener == <<"n","o","o","p","e","n","e","r">>
Noreferrer == <<"n","o","r","e","f","e","r","r","e","r">>

\* the value of the rel of n in d, empty when absent
RelOf(d, n) == IF getAttribute(d, n, Rel) = <<>> THEN <<>> ELSE getAttribute(d, n, Rel)[1]

\* the tokens of a rel value, first occurrences in order, and the two tokens after
\* them where missing
Hardened(rel) ==
    LET tokens == uniqueInOrder(splitWhitespace(rel, <<>>))
    IN tokens \o (IF Noopener \in Range(tokens) THEN <<>> ELSE <<Noopener>>)
              \o (IF Noreferrer \in Range(tokens) THEN <<>> ELSE <<Noreferrer>>)

\* C6 as claimed: the rel of a hardened anchor keeps the input tokens as written
LinkHardeningAsWritten ==
    WalkDone =>
       \A n \in Reachable(dom) :
          (IsElement(dom, n) /\ IsBlankAnchor(dom, n)) =>
             /\ getAttribute(dom, n, Rel) # <<>>
             /\ RelOf(dom, n) = joinSpace(Hardened(RelOf(Input, n)))

\* C6 as amended: the rel of a hardened anchor is the tokens of the input rel in
\* lower case, without repetitions, then noopener and noreferrer where missing
LinkHardening ==
    WalkDone =>
       \A n \in Reachable(dom) :
          (IsElement(dom, n) /\ IsBlankAnchor(dom, n)) =>
             LET after == splitWhitespace(RelOf(dom, n), <<>>)
             IN /\ getAttribute(dom, n, Rel) # <<>>
                /\ RelOf(dom, n) = joinSpace(Hardened(toLowerCase(RelOf(Input, n))))
                /\ Noopener \in Range(after) /\ Noreferrer \in Range(after)
                /\ \A tok \in Range(splitWhitespace(RelOf(Input, n), <<>>)) :
                      toLowerCase(tok) \in Range(after)

\* an anchor with target=_blank whose rel had one token twice, in two spellings, has
\* been hardened
LinkHardeningWitness ==
    /\ WalkDone
    /\ \E n \in Reachable(dom) :
          /\ IsBlankAnchor(dom, n)
          /\ splitWhitespace(RelOf(Input, n), <<>>)
                = << <<"N","o","F","o","l","l","o","w">>, <<"n","o","f","o","l","l","o","w">> >>
          /\ RelOf(dom, n) = <<"n","o","f","o","l","l","o","w"," ",
                               "n","o","o","p","e","n","e","r"," ",
                               "n","o","r","e","f","e","r","r","e","r">>

IsNullish == html.kind \in {"null", "undefined"}
HasFactory == options.createDocument = "function"
HasAmbientParser == window = "DOMParser"

\* C8: the outcomes of sanitize(html, options) and what has happened before each
EntryPointOutcomes ==
    /\ IsNullish =>
          /\ pc \in {"called", "returned"}
          /\ builder = "none" /\ dom = NoDocument
          /\ pc = "returned" => result = <<>>
    /\ (~IsNullish /\ ~HasFactory /\ ~HasAmbientParser) =>
          /\ pc \in {"called", "threw"}
          /\ builder = "none" /\ dom = NoDocument /\ nodes = <<>> /\ result = <<>>
    /\ (~IsNullish /\ HasFactory /\ pc # "called") =>
          builder = "createDocument" /\ pc # "threw"
    /\ (~IsNullish /\ ~HasFactory /\ HasAmbientParser /\ pc # "called") =>
          builder = "DOMParser" /\ pc # "threw"
    /\ pc = "threw" => ~IsNullish /\ ~HasFactory /\ ~HasAmbientParser
    /\ (pc = "returned" /\ ~IsNullish) =>
          /\ idx = Len(nodes) + 1
          /\ nodes = querySelectorAll(Input, Body)
          /\ result = innerHTML(walkAndSanitize(Input, Body), Body)
          /\ \A i \in 1..Len(result) :
                /\ result[i].type # "text" => result[i].name \in SAFE_ELEMENTS
                /\ ~HasDroppedAncestor(Input, result[i].data)

\* a call with a string, a createDocument that is no function and a window without
\* a parser has thrown
EntryPointWitness ==
    /\ pc = "threw"
    /\ html.kind = "string" /\ Input[Body].childNodes # <<>>
    /\ options.createDocument = "string"
    /\ window = "noDOMParser"

=============================================================================
